---- MODULE Spec2Model ----
(***************************************************************************)
(* Work Monitor: the anti-cheat movement classifier (AntiCheatDetector)    *)
(* of WorkMonitor/src/work_monitor.py, with the MouseTracker that feeds    *)
(* it.                                                                     *)
(*                                                                         *)
(* Time.  time.time() is the variable now, counted in ticks of half a      *)
(* second (Seconds(s) is s seconds in ticks), so that intervals of 0.5 s   *)
(* and of 1 s are both whole numbers.                                      *)
(*                                                                         *)
(* Numbers.  Python computes the statistics in floating point.  Here the   *)
(* comparisons the code makes (mean distance below the threshold,          *)
(* regularity above the threshold, reversal rate above 0.7) are decided    *)
(* exactly, in integer arithmetic on the cross-multiplied inequality; a    *)
(* score is held rounded down to whole points.  The weights and the        *)
(* thresholds a score is compared with (0.5, 30, 20, 50, 100) keep every   *)
(* such comparison exact: floor(x) >= 50 iff x >= 50.                      *)
(*                                                                         *)
(* Text.  A rule's message is a record: its fixed text (rule) and the      *)
(* numbers formatted into it.  cheat_reason, the "; "-joined text, is the  *)
(* sequence of the joined messages.                                        *)
(***************************************************************************)
EXTENDS Integers, Sequences, FiniteSets, TLC

VARIABLES
    config,         \* Config.config: the settings the detector reads
    anticheat,      \* the AntiCheatDetector object (MouseTracker.anticheat)
    last_position,  \* MouseTracker.last_position
    now,            \* time.time(), in ticks
    ret,            \* the last call and what it returned
    recorded,       \* history: every sample add_movement ever appended
    scenario,       \* the input script of the run (scripted runs)
    phase,          \* the driver's position
    app             \* WorkMonitorApp with its trackers' clocks and its logger's totals

vars == <<config, anticheat, last_position, now, ret, recorded, scenario, phase, app>>

(***************************************************************************)
(* Bounds of the model                                                     *)
(***************************************************************************)
MaxMoves == 103          \* recorded movements of a scripted run
MaxFreeMoves == 1        \* recorded movements of a free run
MaxClock == 1204         \* last clock value of a free run, in ticks
MaxE2EMoves == 15        \* recorded movements of an end-to-end run
MaxKeys == 1             \* key presses of a free run
MaxWindowChanges == 1    \* window changes of a free run
MaxEvents == 1           \* logged suspicious events of a free run
MaxRepeatedEvents == 2    \* logged suspicious events of a run of direct calls
MaxSwitched == 1         \* settings of a free run that differ from the defaults

(***************************************************************************)
(* Program constants                                                       *)
(***************************************************************************)
MovementHistoryMaxLen == 100
IntervalHistoryMaxLen == 50
DistanceHistoryMaxLen == 50
SuspiciousEventsMaxLen == 50
MinSamples == 10
RecentWindow == 20
MinIntervals == 5
IntervalWindow == 10
MinStdevPoints == 3
MinOscillationSamples == 6
\* the window penalty taken off the score instead of added to it
WindowPenaltySubtracted == 0 - 20
WindowPenalty == 20
\* the no-keyboard rule weighted like the no-window-change rule
KeyboardPenaltyOfWindow == WindowPenalty
KeyboardPenalty == 30
CheatThreshold == 50
MaxScore == 100

None == <<>>
QueryFailed == "OSError"
Seconds(s) == 2 * s
WholeSeconds(ticks) == ticks \div 2

Min(a, b) == IF a < b THEN a ELSE b

\* list[-k:]
LastN(s, k) == IF Len(s) <= k THEN s ELSE SubSeq(s, Len(s) - k + 1, Len(s))

RECURSIVE Sum(_)
Sum(s) == IF s = <<>> THEN 0 ELSE Head(s) + Sum(Tail(s))

RECURSIVE SumSquares(_)
SumSquares(s) == IF s = <<>> THEN 0 ELSE Head(s) * Head(s) + SumSquares(Tail(s))

\* math.sqrt of a perfect square (the movements of the model have whole lengths)
Sqrt(n) == CHOOSE r \in 0..n : r * r <= n /\ (r + 1) * (r + 1) > n

(***************************************************************************)
(* hashlib.sha256(password.encode()).hexdigest(), on the passwords the     *)
(* model uses                                                              *)
(***************************************************************************)
Passwords == {"admin123", "letmein", "hunter2"}

sha256(password) ==
    CASE password = "admin123" ->
            "240be518fabd2724ddb6f04eeb1da5967448d7e831c08c8fa822809f74c720a9"
      [] password = "letmein" ->
            "1c8bfe8f801d79745c4631d09fff36c82aa37fc4cce4fc946683d7b336b63032"
      [] password = "hunter2" ->
            "f52fbd32b2b3b86ff88ef6c490628285f482af15ddcb29541f94bcf526a3f6c7"

(***************************************************************************)
(* DEFAULT_CONFIG, the settings the detector reads and the administrator's *)
(* password hash.                                                          *)
(* max_jitter_regularity is held in percent (0.85 is 85).                  *)
(***************************************************************************)
DEFAULT_CONFIG ==
    [admin_password_hash |-> sha256("admin123"),
     idle_start_seconds |-> 300,
     anticheat_enabled |-> TRUE,
     min_movement_distance |-> 50,
     max_jitter_regularity |-> 85,
     require_keyboard_activity |-> TRUE,
     keyboard_check_interval |-> 300,
     require_window_changes |-> TRUE,
     window_change_interval |-> 600]

(***************************************************************************)
(* Config.  self.config is a function from the keys it holds to their      *)
(* values; a key it does not hold is outside its domain.                   *)
(***************************************************************************)
\* {**DEFAULT_CONFIG, **loaded}; loaded is << >> where there is no file, or
\* nothing decoded from it, and load returns DEFAULT_CONFIG.copy()
Config_load(loaded) ==
    [k \in DOMAIN DEFAULT_CONFIG \cup DOMAIN loaded |->
        IF k \in DOMAIN loaded THEN loaded[k] ELSE DEFAULT_CONFIG[k]]

\* self.config.get(key, DEFAULT_CONFIG.get(key))
Config_get(self_config, key) ==
    IF key \in DOMAIN self_config THEN self_config[key]
    ELSE IF key \in DOMAIN DEFAULT_CONFIG THEN DEFAULT_CONFIG[key]
    ELSE None

\* self.config[key] = value
Config_set(self_config, key, value) ==
    [k \in DOMAIN self_config \cup {key} |-> IF k = key THEN value ELSE self_config[k]]

verify_password(self_config, password) ==
    sha256(password) = self_config["admin_password_hash"]

\* the password stored as it is given
set_password_unhashed(self_config, new_password) ==
    Config_set(self_config, "admin_password_hash", new_password)

set_password(self_config, new_password) ==
    Config_set(self_config, "admin_password_hash", sha256(new_password))

(***************************************************************************)
(* collections.deque(maxlen=n).append                                      *)
(***************************************************************************)
deque_append_keeps_oldest(d, x, maxlen) ==
    IF Len(d) >= maxlen THEN d ELSE Append(d, x)

deque_append(d, x, maxlen) ==
    IF Len(d) >= maxlen THEN Append(Tail(d), x) ELSE Append(d, x)

(***************************************************************************)
(* AntiCheatDetector                                                       *)
(***************************************************************************)
AntiCheatDetector(t) ==
    [movement_history |-> <<>>,
     interval_history |-> <<>>,
     distance_history |-> <<>>,
     last_keyboard_time |-> t,
     keyboard_count |-> 0,
     last_window_change |-> t,
     last_window_title |-> "",
     window_change_count |-> 0,
     is_cheating |-> FALSE,
     cheat_reason |-> <<>>,
     cheat_score |-> 0,
     suspicious_events |-> <<>>]

calculate_distance(pos1, pos2) ==
    Sqrt((pos2[1] - pos1[1]) * (pos2[1] - pos1[1]) + (pos2[2] - pos1[2]) * (pos2[2] - pos1[2]))

\* the interval taken from the sample just appended, not the one before it
add_movement_interval_from_last(self, old_pos, new_pos, timestamp) ==
    IF old_pos = None THEN self
    ELSE
        LET distance == calculate_distance(old_pos, new_pos)
            movement == deque_append(self.movement_history,
                                     <<timestamp, new_pos[1], new_pos[2], distance>>,
                                     MovementHistoryMaxLen)
            distances == deque_append(self.distance_history, distance, DistanceHistoryMaxLen)
            intervals ==
                IF Len(movement) >= 2
                THEN deque_append(self.interval_history,
                                  timestamp - movement[Len(movement)][1],
                                  IntervalHistoryMaxLen)
                ELSE self.interval_history
        IN  [self EXCEPT !.movement_history = movement,
                         !.distance_history = distances,
                         !.interval_history = intervals]

\* an interval appended for the first sample too
add_movement_interval_always(self, old_pos, new_pos, timestamp) ==
    IF old_pos = None THEN self
    ELSE
        LET distance == calculate_distance(old_pos, new_pos)
            movement == deque_append(self.movement_history,
                                     <<timestamp, new_pos[1], new_pos[2], distance>>,
                                     MovementHistoryMaxLen)
            distances == deque_append(self.distance_history, distance, DistanceHistoryMaxLen)
            intervals ==
                deque_append(self.interval_history,
                             IF Len(movement) >= 2
                             THEN timestamp - movement[Len(movement) - 1][1]
                             ELSE 0,
                             IntervalHistoryMaxLen)
        IN  [self EXCEPT !.movement_history = movement,
                         !.distance_history = distances,
                         !.interval_history = intervals]

\* a missing previous position taken to be the corner of the screen
add_movement_from_corner(self, old_pos, new_pos, timestamp) ==
    LET distance == calculate_distance(IF old_pos = None THEN <<0, 0>> ELSE old_pos, new_pos)
        movement == deque_append(self.movement_history,
                                 <<timestamp, new_pos[1], new_pos[2], distance>>,
                                 MovementHistoryMaxLen)
        distances == deque_append(self.distance_history, distance, DistanceHistoryMaxLen)
        intervals ==
            IF Len(movement) >= 2
            THEN deque_append(self.interval_history,
                              timestamp - movement[Len(movement) - 1][1],
                              IntervalHistoryMaxLen)
            ELSE self.interval_history
    IN  [self EXCEPT !.movement_history = movement,
                     !.distance_history = distances,
                     !.interval_history = intervals]

add_movement(self, old_pos, new_pos, timestamp) ==
    IF old_pos = None THEN self
    ELSE
        LET distance == calculate_distance(old_pos, new_pos)
            movement == deque_append(self.movement_history,
                                     <<timestamp, new_pos[1], new_pos[2], distance>>,
                                     MovementHistoryMaxLen)
            distances == deque_append(self.distance_history, distance, DistanceHistoryMaxLen)
            intervals ==
                IF Len(movement) >= 2
                THEN deque_append(self.interval_history,
                                  timestamp - movement[Len(movement) - 1][1],
                                  IntervalHistoryMaxLen)
                ELSE self.interval_history
        IN  [self EXCEPT !.movement_history = movement,
                         !.distance_history = distances,
                         !.interval_history = intervals]

(***************************************************************************)
(* The text of a message: rule is its fixed part, value and threshold the  *)
(* numbers formatted into it (0 where the text has none).                  *)
(***************************************************************************)
Message(rule, value, threshold) == [rule |-> rule, value |-> value, threshold |-> threshold]
RegularMsg == "Regular micro-movements detected"
OscillatingMsg == "Oscillating mouse pattern detected"
NoKeyboardMsg == "No keyboard activity"
SameWindowMsg == "Same window"
NoneMsg == "None"
DisabledMsg == "Anti-cheat disabled"

(***************************************************************************)
(* statistics.stdev(v) / statistics.mean(v), squared, as a fraction:       *)
(* with n = len(v), S1 = sum(v), S2 = sum(x*x), the sample variance is     *)
(* (n*S2 - S1^2) / (n*(n-1)) and the mean S1/n, so that                    *)
(* cv^2 = n*(n*S2 - S1^2) / ((n-1)*S1^2).                                  *)
(***************************************************************************)
CvSquared(intervals) ==
    LET n == Len(intervals)
        S1 == Sum(intervals)
        S2 == SumSquares(intervals)
    IN  [num |-> n * (n * S2 - S1 * S1), den |-> (n - 1) * S1 * S1]

\* min(cv, 1) > max_jitter_regularity: the coefficient of variation taken
\* for the regularity
CvExceeds(intervals, max_percent) ==
    LET cv2 == CvSquared(intervals)
    IN  10000 * cv2.num > max_percent * max_percent * cv2.den

\* regularity = 1 - min(cv, 1); regularity > max_jitter_regularity (percent),
\* that is cv < 1 - max/100, decided on the squares
RegularityExceeds(intervals, max_percent) ==
    LET cv2 == CvSquared(intervals)
        slack == 100 - max_percent
    IN  IF slack <= 0 THEN FALSE
        ELSE IF slack > 100 THEN TRUE
        ELSE 10000 * cv2.num < slack * slack * cv2.den

\* the coefficient of variation itself taken for the score
RegularityScoreOfVariation(intervals) ==
    LET cv2 == CvSquared(intervals)
    IN  CHOOSE k \in 0..100 :
            /\ (k = 100 \/ k * k * cv2.den >= 10000 * cv2.num)
            /\ (k = 0 \/ (k - 1) * (k - 1) * cv2.den < 10000 * cv2.num)

\* regularity * 100, rounded down: 100 - ceil(100 * min(cv, 1))
RegularityScore(intervals) ==
    LET cv2 == CvSquared(intervals)
        c == CHOOSE k \in 0..100 :
                /\ (k = 100 \/ k * k * cv2.den >= 10000 * cv2.num)
                /\ (k = 0 \/ (k - 1) * (k - 1) * cv2.den < 10000 * cv2.num)
    IN  100 - c

\* [positions[i+1] - positions[i] for i in range(len(positions)-1)]
Changes(positions) == [i \in 1..(Len(positions) - 1) |-> positions[i + 1] - positions[i]]

\* sum(1 for i in range(len(changes)-1) if changes[i] * changes[i+1] < 0)
Reversals(changes) ==
    Cardinality({i \in 1..(Len(changes) - 1) : changes[i] * changes[i + 1] < 0})

ColdStartShort(self) == Len(self.movement_history) < MinIntervals

ColdStart(self) == Len(self.movement_history) < MinSamples

NotFired == [fired |-> FALSE, score |-> 0, reason |-> Message("", 0, 0)]

\* intervals of mean 0 taken for perfectly regular ones
RegularityCheckZeroMeanRegular(self, cfg) ==
    IF Len(self.interval_history) >= MinIntervals
    THEN LET intervals == LastN(self.interval_history, IntervalWindow)
         IN  IF Len(intervals) >= MinStdevPoints /\ Sum(intervals) = 0
             THEN [fired |-> TRUE, score |-> 100, reason |-> Message(RegularMsg, 100, 0)]
             ELSE IF /\ Len(intervals) >= MinStdevPoints
                     /\ RegularityExceeds(intervals, cfg.max_jitter_regularity)
             THEN [fired |-> TRUE,
                   score |-> RegularityScore(intervals),
                   reason |-> Message(RegularMsg, RegularityScore(intervals), 0)]
             ELSE NotFired
    ELSE NotFired

\* Check 2 of detect_jitter_pattern: regular intervals
RegularityCheck(self, cfg) ==
    IF Len(self.interval_history) >= MinIntervals
    THEN LET intervals == LastN(self.interval_history, IntervalWindow)
         IN  IF /\ Len(intervals) >= MinStdevPoints
                /\ Sum(intervals) > 0
                /\ RegularityExceeds(intervals, cfg.max_jitter_regularity)
             THEN [fired |-> TRUE,
                   score |-> RegularityScore(intervals),
                   reason |-> Message(RegularMsg, RegularityScore(intervals), 0)]
             ELSE NotFired
    ELSE NotFired

\* the reversals counted against the axes that move only
ReversalCountOfMovingAxes(recent) ==
    LET x_changes == Changes([i \in 1..Len(recent) |-> recent[i][2]])
        y_changes == Changes([i \in 1..Len(recent) |-> recent[i][3]])
        x_moves == \E i \in 1..Len(x_changes) : x_changes[i] # 0
        y_moves == \E i \in 1..Len(y_changes) : y_changes[i] # 0
    IN  [total |-> Reversals(x_changes) + Reversals(y_changes),
         max |-> (IF x_moves THEN Len(x_changes) - 1 ELSE 0)
                 + (IF y_moves THEN Len(y_changes) - 1 ELSE 0)]

\* total_reversals and max_reversals of Check 3
ReversalCount(recent) ==
    LET x_changes == Changes([i \in 1..Len(recent) |-> recent[i][2]])
        y_changes == Changes([i \in 1..Len(recent) |-> recent[i][3]])
    IN  [total |-> Reversals(x_changes) + Reversals(y_changes),
         max |-> Len(x_changes) - 1 + Len(y_changes) - 1]

\* Check 3 of detect_jitter_pattern: oscillating pattern
OscillationCheck(recent) ==
    IF Len(recent) >= MinOscillationSamples
    THEN LET r == ReversalCount(recent)
         IN  IF r.max > 0 /\ 10 * r.total > 7 * r.max
             THEN [fired |-> TRUE,
                   score |-> (100 * r.total) \div r.max,
                   reason |-> Message(OscillatingMsg, (100 * r.total) \div r.max, 0)]
             ELSE NotFired
    ELSE NotFired

\* the oscillation check made before the regularity check
detect_jitter_pattern_oscillation_first(self, cfg) ==
    IF ColdStart(self) THEN NotFired
    ELSE
        LET recent == LastN(self.movement_history, RecentWindow)
            distances == [i \in 1..Len(recent) |-> recent[i][4]]
        IN  IF Sum(distances) < cfg.min_movement_distance * Len(distances)
            THEN IF OscillationCheck(recent).fired
                 THEN OscillationCheck(recent)
                 ELSE RegularityCheck(self, cfg)
            ELSE NotFired

\* a mean distance equal to min_movement_distance let through
detect_jitter_pattern_gate_inclusive(self, cfg) ==
    IF ColdStart(self) THEN NotFired
    ELSE
        LET recent == LastN(self.movement_history, RecentWindow)
            distances == [i \in 1..Len(recent) |-> recent[i][4]]
        IN  IF Sum(distances) <= cfg.min_movement_distance * Len(distances)
            THEN IF RegularityCheck(self, cfg).fired
                 THEN RegularityCheck(self, cfg)
                 ELSE OscillationCheck(recent)
            ELSE NotFired

detect_jitter_pattern(self, cfg) ==
    IF ColdStart(self) THEN NotFired
    ELSE
        LET recent == LastN(self.movement_history, RecentWindow)
            distances == [i \in 1..Len(recent) |-> recent[i][4]]
        IN  \* statistics.mean(distances) < min_movement_distance
            IF Sum(distances) < cfg.min_movement_distance * Len(distances)
            THEN IF RegularityCheck(self, cfg).fired
                 THEN RegularityCheck(self, cfg)
                 ELSE OscillationCheck(recent)
            ELSE NotFired

detect_no_keyboard_inclusive(self, cfg, t) ==
    IF ~cfg.require_keyboard_activity THEN [fired |-> FALSE, reason |-> Message("", 0, 0)]
    ELSE
        LET elapsed == t - self.last_keyboard_time
            threshold == cfg.keyboard_check_interval
        IN  IF elapsed >= Seconds(threshold)
            THEN [fired |-> TRUE,
                  reason |-> Message(NoKeyboardMsg, WholeSeconds(elapsed), threshold)]
            ELSE [fired |-> FALSE, reason |-> Message("", 0, 0)]

detect_no_keyboard(self, cfg, t) ==
    IF ~cfg.require_keyboard_activity THEN [fired |-> FALSE, reason |-> Message("", 0, 0)]
    ELSE
        LET elapsed == t - self.last_keyboard_time
            threshold == cfg.keyboard_check_interval
        IN  IF elapsed > Seconds(threshold)
            THEN [fired |-> TRUE,
                  reason |-> Message(NoKeyboardMsg, WholeSeconds(elapsed), threshold)]
            ELSE [fired |-> FALSE, reason |-> Message("", 0, 0)]

detect_no_window_change_inclusive(self, cfg, t) ==
    IF ~cfg.require_window_changes THEN [fired |-> FALSE, reason |-> Message("", 0, 0)]
    ELSE
        LET elapsed == t - self.last_window_change
            threshold == cfg.window_change_interval
        IN  IF elapsed >= Seconds(threshold)
            THEN [fired |-> TRUE,
                  reason |-> Message(SameWindowMsg, WholeSeconds(elapsed), threshold)]
            ELSE [fired |-> FALSE, reason |-> Message("", 0, 0)]

detect_no_window_change(self, cfg, t) ==
    IF ~cfg.require_window_changes THEN [fired |-> FALSE, reason |-> Message("", 0, 0)]
    ELSE
        LET elapsed == t - self.last_window_change
            threshold == cfg.window_change_interval
        IN  IF elapsed > Seconds(threshold)
            THEN [fired |-> TRUE,
                  reason |-> Message(SameWindowMsg, WholeSeconds(elapsed), threshold)]
            ELSE [fired |-> FALSE, reason |-> Message("", 0, 0)]

record_keyboard_activity(self, t) ==
    [self EXCEPT !.last_keyboard_time = t,
                 !.keyboard_count = self.keyboard_count + 1]

\* the time of the last change taken anew whenever the query succeeds
check_active_window_refreshes(self, current_title, t) ==
    IF current_title # QueryFailed /\ current_title # self.last_window_title
    THEN [self |-> [self EXCEPT !.last_window_title = current_title,
                                !.last_window_change = t,
                                !.window_change_count = self.window_change_count + 1],
          changed |-> TRUE]
    ELSE [self |-> IF current_title # QueryFailed
                   THEN [self EXCEPT !.last_window_change = t] ELSE self,
          changed |-> FALSE]

\* current_title is the title the OS reports, or QueryFailed when the query raises
\* OSError or AttributeError (no window has that title)
check_active_window(self, current_title, t) ==
    IF current_title # QueryFailed /\ current_title # self.last_window_title
    THEN [self |-> [self EXCEPT !.last_window_title = current_title,
                                !.last_window_change = t,
                                !.window_change_count = self.window_change_count + 1],
          changed |-> TRUE]
    ELSE [self |-> self, changed |-> FALSE]

(***************************************************************************)
(* analyze                                                                 *)
(***************************************************************************)
\* the raw jitter score added unweighted
JitterContributionUnweighted(jitter_score) == jitter_score

\* the raw jitter score weighted 0.6
JitterContributionOverweighted(jitter_score) == (jitter_score * 6) \div 10

\* total_score += jitter_score * 0.5
JitterContribution(jitter_score) == jitter_score \div 2

\* self.cheat_score = min(100, total_score)
ClampScore(total_score) == Min(MaxScore, total_score)

IsCheatingAbove(cheat_score) == cheat_score > CheatThreshold

\* self.is_cheating = self.cheat_score >= 50
IsCheating(cheat_score) == cheat_score >= CheatThreshold

\* the messages joined last to first
JoinReasonsReversed(issues) ==
    IF issues # <<>> THEN [i \in 1..Len(issues) |-> issues[Len(issues) + 1 - i]]
    ELSE <<Message(NoneMsg, 0, 0)>>

\* "; ".join(issues) if issues else "None"
JoinReasons(issues) == IF issues # <<>> THEN issues ELSE <<Message(NoneMsg, 0, 0)>>

Verdict(is_cheating, score, reason) ==
    [is_cheating |-> is_cheating, score |-> score, reason |-> reason]

AntiCheatDisabledIgnored(cfg) == FALSE

\* if not self.config.get('anticheat_enabled')
AntiCheatDisabled(cfg) == ~cfg.anticheat_enabled

\* the disabled verdict stored like any other
analyze_stores_disabled_verdict(self, cfg, t) ==
    IF AntiCheatDisabled(cfg)
    THEN [self |-> [self EXCEPT !.cheat_score = 0,
                                !.is_cheating = FALSE,
                                !.cheat_reason = <<Message(DisabledMsg, 0, 0)>>],
          value |-> Verdict(FALSE, 0, <<Message(DisabledMsg, 0, 0)>>)]
    ELSE
        LET jitter == detect_jitter_pattern(self, cfg)
            no_keyboard == detect_no_keyboard(self, cfg, t)
            no_window == detect_no_window_change(self, cfg, t)
            issues == (IF jitter.fired THEN <<jitter.reason>> ELSE <<>>)
                      \o (IF no_keyboard.fired THEN <<no_keyboard.reason>> ELSE <<>>)
                      \o (IF no_window.fired THEN <<no_window.reason>> ELSE <<>>)
            total_score == (IF jitter.fired THEN JitterContribution(jitter.score) ELSE 0)
                           + (IF no_keyboard.fired THEN KeyboardPenalty ELSE 0)
                           + (IF no_window.fired THEN WindowPenalty ELSE 0)
            cheat_score == ClampScore(total_score)
            is_cheating == IsCheating(cheat_score)
            cheat_reason == JoinReasons(issues)
            events == IF is_cheating
                      THEN deque_append(self.suspicious_events,
                                        [time |-> t, score |-> cheat_score, reasons |-> issues],
                                        SuspiciousEventsMaxLen)
                      ELSE self.suspicious_events
        IN  [self |-> [self EXCEPT !.cheat_score = cheat_score,
                                   !.is_cheating = is_cheating,
                                   !.cheat_reason = cheat_reason,
                                   !.suspicious_events = events],
             value |-> Verdict(is_cheating, cheat_score, cheat_reason)]

\* an entry logged whenever a rule fired, cheating or not
analyze_logs_every_issue(self, cfg, t) ==
    IF AntiCheatDisabled(cfg)
    THEN [self |-> self, value |-> Verdict(FALSE, 0, <<Message(DisabledMsg, 0, 0)>>)]
    ELSE
        LET jitter == detect_jitter_pattern(self, cfg)
            no_keyboard == detect_no_keyboard(self, cfg, t)
            no_window == detect_no_window_change(self, cfg, t)
            issues == (IF jitter.fired THEN <<jitter.reason>> ELSE <<>>)
                      \o (IF no_keyboard.fired THEN <<no_keyboard.reason>> ELSE <<>>)
                      \o (IF no_window.fired THEN <<no_window.reason>> ELSE <<>>)
            total_score == (IF jitter.fired THEN JitterContribution(jitter.score) ELSE 0)
                           + (IF no_keyboard.fired THEN KeyboardPenalty ELSE 0)
                           + (IF no_window.fired THEN WindowPenalty ELSE 0)
            cheat_score == ClampScore(total_score)
            is_cheating == IsCheating(cheat_score)
            cheat_reason == JoinReasons(issues)
            events == IF issues # <<>>
                      THEN deque_append(self.suspicious_events,
                                        [time |-> t, score |-> cheat_score, reasons |-> issues],
                                        SuspiciousEventsMaxLen)
                      ELSE self.suspicious_events
        IN  [self |-> [self EXCEPT !.cheat_score = cheat_score,
                                   !.is_cheating = is_cheating,
                                   !.cheat_reason = cheat_reason,
                                   !.suspicious_events = events],
             value |-> Verdict(is_cheating, cheat_score, cheat_reason)]

\* the keyboard timer restarted by a positive verdict
analyze_resets_keyboard_timer(self, cfg, t) ==
    IF AntiCheatDisabled(cfg)
    THEN [self |-> self, value |-> Verdict(FALSE, 0, <<Message(DisabledMsg, 0, 0)>>)]
    ELSE
        LET jitter == detect_jitter_pattern(self, cfg)
            no_keyboard == detect_no_keyboard(self, cfg, t)
            no_window == detect_no_window_change(self, cfg, t)
            issues == (IF jitter.fired THEN <<jitter.reason>> ELSE <<>>)
                      \o (IF no_keyboard.fired THEN <<no_keyboard.reason>> ELSE <<>>)
                      \o (IF no_window.fired THEN <<no_window.reason>> ELSE <<>>)
            total_score == (IF jitter.fired THEN JitterContribution(jitter.score) ELSE 0)
                           + (IF no_keyboard.fired THEN KeyboardPenalty ELSE 0)
                           + (IF no_window.fired THEN WindowPenalty ELSE 0)
            cheat_score == ClampScore(total_score)
            is_cheating == IsCheating(cheat_score)
            cheat_reason == JoinReasons(issues)
            events == IF is_cheating
                      THEN deque_append(self.suspicious_events,
                                        [time |-> t, score |-> cheat_score, reasons |-> issues],
                                        SuspiciousEventsMaxLen)
                      ELSE self.suspicious_events
        IN  [self |-> [self EXCEPT !.cheat_score = cheat_score,
                                   !.is_cheating = is_cheating,
                                   !.cheat_reason = cheat_reason,
                                   !.suspicious_events = events,
                                   !.last_keyboard_time =
                                        IF is_cheating THEN t ELSE self.last_keyboard_time],
             value |-> Verdict(is_cheating, cheat_score, cheat_reason)]

analyze(self, cfg, t) ==
    IF AntiCheatDisabled(cfg)
    THEN [self |-> self, value |-> Verdict(FALSE, 0, <<Message(DisabledMsg, 0, 0)>>)]
    ELSE
        LET jitter == detect_jitter_pattern(self, cfg)
            no_keyboard == detect_no_keyboard(self, cfg, t)
            no_window == detect_no_window_change(self, cfg, t)
            issues == (IF jitter.fired THEN <<jitter.reason>> ELSE <<>>)
                      \o (IF no_keyboard.fired THEN <<no_keyboard.reason>> ELSE <<>>)
                      \o (IF no_window.fired THEN <<no_window.reason>> ELSE <<>>)
            total_score == (IF jitter.fired THEN JitterContribution(jitter.score) ELSE 0)
                           + (IF no_keyboard.fired THEN KeyboardPenalty ELSE 0)
                           + (IF no_window.fired THEN WindowPenalty ELSE 0)
            cheat_score == ClampScore(total_score)
            is_cheating == IsCheating(cheat_score)
            cheat_reason == JoinReasons(issues)
            events == IF is_cheating
                      THEN deque_append(self.suspicious_events,
                                        [time |-> t, score |-> cheat_score, reasons |-> issues],
                                        SuspiciousEventsMaxLen)
                      ELSE self.suspicious_events
        IN  [self |-> [self EXCEPT !.cheat_score = cheat_score,
                                   !.is_cheating = is_cheating,
                                   !.cheat_reason = cheat_reason,
                                   !.suspicious_events = events],
             value |-> Verdict(is_cheating, cheat_score, cheat_reason)]

(***************************************************************************)
(* get_status                                                              *)
(***************************************************************************)
\* the log emptied by the call that reports its length
get_status_drains_log(self, t) ==
    [self |-> [self EXCEPT !.suspicious_events = <<>>],
     value |-> [is_cheating |-> self.is_cheating,
                score |-> self.cheat_score,
                reason |-> self.cheat_reason,
                keyboard_last |-> t - self.last_keyboard_time,
                window_last |-> t - self.last_window_change,
                suspicious_count |-> Len(self.suspicious_events)]]

get_status(self, t) ==
    [self |-> self,
     value |-> [is_cheating |-> self.is_cheating,
                score |-> self.cheat_score,
                reason |-> self.cheat_reason,
                keyboard_last |-> t - self.last_keyboard_time,
                window_last |-> t - self.last_window_change,
                suspicious_count |-> Len(self.suspicious_events)]]

(***************************************************************************)
(* The calls, as steps.  Each leaves scenario and phase to the driver that *)
(* makes the call.                                                         *)
(***************************************************************************)
Return(op, value) == [op |-> op, value |-> value]

\* MouseTracker.has_moved, the cursor being at current_pos, the foreground
\* window's title current_title and the clock t
HasMoved(current_pos, current_title, t) ==
    /\ now' = t
    /\ UNCHANGED config
    /\ IF last_position = None
       THEN /\ last_position' = current_pos
            /\ ret' = Return("has_moved", TRUE)
            /\ UNCHANGED <<anticheat, recorded>>
       ELSE IF current_pos # last_position
       THEN /\ anticheat' = check_active_window(
                                add_movement(anticheat, last_position, current_pos, t),
                                current_title, t).self
            /\ recorded' = Append(recorded,
                                  <<t, current_pos[1], current_pos[2],
                                    calculate_distance(last_position, current_pos)>>)
            /\ last_position' = current_pos
            /\ ret' = Return("has_moved", TRUE)
       ELSE /\ ret' = Return("has_moved", FALSE)
            /\ UNCHANGED <<anticheat, recorded, last_position>>

\* AntiCheatDetector.add_movement, called with the clock at t
AddMovement(old_pos, new_pos, t) ==
    /\ anticheat' = add_movement(anticheat, old_pos, new_pos, t)
    /\ recorded' = IF old_pos = None THEN recorded
                   ELSE Append(recorded,
                               <<t, new_pos[1], new_pos[2], calculate_distance(old_pos, new_pos)>>)
    /\ ret' = Return("add_movement", None)
    /\ UNCHANGED <<config, last_position, now>>

\* AntiCheatDetector.record_keyboard_activity
RecordKeyboardActivity ==
    /\ anticheat' = record_keyboard_activity(anticheat, now)
    /\ ret' = Return("record_keyboard_activity", None)
    /\ UNCHANGED <<config, last_position, now, recorded>>

\* AntiCheatDetector.check_active_window
CheckActiveWindow(current_title) ==
    /\ anticheat' = check_active_window(anticheat, current_title, now).self
    /\ ret' = Return("check_active_window", check_active_window(anticheat, current_title, now).changed)
    /\ UNCHANGED <<config, last_position, now, recorded>>

\* AntiCheatDetector.analyze
Analyze ==
    /\ anticheat' = analyze(anticheat, config, now).self
    /\ ret' = Return("analyze", analyze(anticheat, config, now).value)
    /\ UNCHANGED <<config, last_position, now, recorded>>

\* AntiCheatDetector.get_status
GetStatus ==
    /\ anticheat' = get_status(anticheat, now).self
    /\ ret' = Return("get_status", get_status(anticheat, now).value)
    /\ UNCHANGED <<config, last_position, now, recorded>>

\* Config.set(key, value)
ConfigSet(key, value) ==
    /\ config' = Config_set(config, key, value)
    /\ ret' = Return("set", None)
    /\ UNCHANGED <<anticheat, last_position, now, recorded>>

\* Config.get(key)
ConfigGet(key) ==
    /\ ret' = Return("get", Config_get(config, key))
    /\ UNCHANGED <<config, anticheat, last_position, now, recorded>>

\* Config.verify_password(password)
VerifyPassword(password) ==
    /\ ret' = Return("verify_password", verify_password(config, password))
    /\ UNCHANGED <<config, anticheat, last_position, now, recorded>>

\* Config.set_password(new_password)
SetPassword(new_password) ==
    /\ config' = set_password(config, new_password)
    /\ ret' = Return("set_password", None)
    /\ UNCHANGED <<anticheat, last_position, now, recorded>>

\* time passing between two calls
Sleep(d) ==
    /\ now' = now + d
    /\ ret' = Return("sleep", None)
    /\ UNCHANGED <<config, anticheat, last_position, recorded>>

(***************************************************************************)
(* WorkMonitorApp.monitor_loop                                             *)
(***************************************************************************)
\* ActivityLogger.add_work_time, add_suspicious_time, add_idle_time, on the
\* totals held in self
add_work_time(self, seconds) == [self EXCEPT !.work_seconds = @ + seconds]
add_suspicious_time(self, seconds) == [self EXCEPT !.suspicious_seconds = @ + seconds]
add_idle_time(self, seconds) == [self EXCEPT !.idle_seconds = @ + seconds]

\* the elapsed time added to a total outside work hours as well
UpdateTimeTrackingAllDay(self, work_hours, is_real, elapsed) ==
    IF self.is_working /\ is_real THEN add_work_time(self, elapsed)
    ELSE IF self.is_working /\ ~is_real THEN add_suspicious_time(self, elapsed)
    ELSE add_idle_time(self, elapsed)

\* "Update time tracking (ONLY during work hours ...)"; work_hours is what
\* is_work_hours() returns
UpdateTimeTracking(self, work_hours, is_real, elapsed) ==
    IF work_hours
    THEN IF self.is_working /\ is_real THEN add_work_time(self, elapsed)
         ELSE IF self.is_working /\ ~is_real THEN add_suspicious_time(self, elapsed)
         ELSE add_idle_time(self, elapsed)
    ELSE self

\* One iteration of monitor_loop, d after the last one: the cursor is at
\* current_pos, the foreground window's title is current_title, key_pressed
\* tells whether a key went down since the last iteration, work_hours whether
\* the wall clock is within work hours.
MonitorLoop(d, current_pos, current_title, key_pressed, work_hours) ==
    LET current_time == now + d
        elapsed == current_time - app.last_check_time
        \* mouse_tracker.has_moved()
        moved == last_position # None /\ current_pos # last_position
        after_mouse ==
            IF moved
            THEN check_active_window(
                     add_movement(anticheat, last_position, current_pos, current_time),
                     current_title, current_time).self
            ELSE anticheat
        last_move_time == IF moved THEN current_time ELSE app.last_move_time
        \* keyboard_tracker.check_activity()
        after_keyboard ==
            IF key_pressed THEN record_keyboard_activity(after_mouse, current_time)
            ELSE after_mouse
        last_activity == IF key_pressed THEN current_time ELSE app.last_activity
        idle_seconds == Min(current_time - last_move_time, current_time - last_activity)
        is_working == idle_seconds < Seconds(Config_get(config, "idle_start_seconds"))
        \* mouse_tracker.is_real_activity()
        verdict == analyze(after_keyboard, config, current_time)
        is_real == ~verdict.value.is_cheating
    IN  /\ now' = current_time
        /\ anticheat' = verdict.self
        /\ last_position' = current_pos
        /\ recorded' = IF moved
                       THEN Append(recorded,
                                   <<current_time, current_pos[1], current_pos[2],
                                     calculate_distance(last_position, current_pos)>>)
                       ELSE recorded
        /\ app' = UpdateTimeTracking(
                      [app EXCEPT !.last_check_time = current_time,
                                  !.last_move_time = last_move_time,
                                  !.last_activity = last_activity,
                                  !.key_count = IF key_pressed THEN @ + 1 ELSE @,
                                  !.is_working = is_working,
                                  !.is_suspicious = ~is_real],
                      work_hours, is_real, elapsed)
        /\ ret' = Return("monitor_loop", None)
        /\ UNCHANGED config

(***************************************************************************)
(* Inputs                                                                  *)
(***************************************************************************)
Origin == <<100, 100>>
Titles == {"editor", "browser"}
Plus(pos, v) == <<pos[1] + v[1], pos[2] + v[2]>>

NoScenario == [moves |-> <<>>, timing |-> <<>>, keys |-> FALSE, switch |-> FALSE]

\* WorkMonitorApp.__init__ at clock t: the fields monitor_loop uses, the
\* clocks of the two trackers and the totals of today's log
WorkMonitorApp(t) ==
    [last_check_time |-> t,
     is_working |-> FALSE,
     is_suspicious |-> FALSE,
     last_move_time |-> t,
     last_activity |-> t,
     key_count |-> 0,
     work_seconds |-> 0,
     idle_seconds |-> 0,
     suspicious_seconds |-> 0]

InitObjects ==
    /\ app = WorkMonitorApp(0)
    /\ anticheat = AntiCheatDetector(0)
    /\ last_position = None
    /\ now = 0
    /\ ret = Return("__init__", None)
    /\ recorded = <<>>

(***************************************************************************)
(* Scripted runs: a driver feeds the movements of one scenario, and calls  *)
(* analyze after each.  A scenario is a cycle of displacements, a cycle of *)
(* intervals (ticks), whether a key is pressed after each movement and     *)
(* whether the foreground window changes with each movement.               *)
(***************************************************************************)
MoveCycles ==
    { << <<2, 0>> >>,                                        \* 2 px steps along a line
      << <<3, 0>> >>,                                        \* 3 px steps along a line
      << <<2, 0>>, <<-2, 0>> >>,                             \* (100,100) <-> (102,100)
      << <<3, 4>>, <<-3, -4>> >>,                            \* diagonal back and forth
      << <<3, 4>>, <<-3, -4>>, <<3, -4>>, <<-3, 4>> >>,      \* x reverses always, y half the time
      << <<30, 40>> >>,                                      \* 50 px steps
      << <<30, 40>>, <<-30, -40>> >>,                        \* 50 px back and forth
      << <<60, 0>> >> }                                      \* 60 px steps

Timings ==
    { <<2>>,            \* every second
      <<1>>,            \* every half second
      <<6, 7>>,         \* nearly regular
      <<1, 6>>,         \* irregular
      <<0>> }           \* one timestamp for all

Scenarios ==
    [moves : MoveCycles, timing : Timings, keys : BOOLEAN, switch : BOOLEAN]

ScriptedConfigs ==
    { DEFAULT_CONFIG,
      [DEFAULT_CONFIG EXCEPT !.keyboard_check_interval = 3, !.window_change_interval = 5],
      [DEFAULT_CONFIG EXCEPT !.anticheat_enabled = FALSE,
                             !.keyboard_check_interval = 3, !.window_change_interval = 5] }

Cyclic(cycle, k) == cycle[(k % Len(cycle)) + 1]

ScriptedHasMoved ==
    /\ phase = "feed"
    /\ Len(recorded) < MaxMoves
    /\ IF last_position = None
       THEN HasMoved(Origin, "editor", now) /\ phase' = "feed"
       ELSE /\ HasMoved(Plus(last_position, Cyclic(scenario.moves, Len(recorded))),
                        IF scenario.switch /\ Len(recorded) % 2 = 1 THEN "browser" ELSE "editor",
                        now + Cyclic(scenario.timing, Len(recorded)))
            /\ phase' = IF scenario.keys THEN "keys" ELSE "analyze"
    /\ UNCHANGED <<scenario, app>>

ScriptedKeyboard ==
    /\ phase = "keys"
    /\ RecordKeyboardActivity
    /\ phase' = "analyze"
    /\ UNCHANGED <<scenario, app>>

ScriptedAnalyze ==
    /\ phase = "analyze"
    /\ Analyze
    /\ phase' = "feed"
    /\ UNCHANGED <<scenario, app>>

InitScripted ==
    /\ InitObjects
    /\ config \in ScriptedConfigs
    /\ scenario \in Scenarios
    /\ phase = "feed"

NextScripted == ScriptedHasMoved \/ ScriptedKeyboard \/ ScriptedAnalyze

SpecScripted == InitScripted /\ [][NextScripted]_vars

(***************************************************************************)
(* End-to-end runs: a key is pressed at t = 0, then the driver records a   *)
(* movement of the scenario, lets the scenario's interval pass and calls   *)
(* analyze, the first movement being recorded at t = 0.                    *)
(***************************************************************************)
E2EScenarios ==
    [moves : MoveCycles, timing : Timings, keys : {FALSE}, switch : {FALSE}]

\* where the cursor was when the last movement was recorded
LastRecordedPosition ==
    IF recorded = <<>> THEN Origin
    ELSE <<recorded[Len(recorded)][2], recorded[Len(recorded)][3]>>

E2EKeyboard ==
    /\ phase = "start"
    /\ RecordKeyboardActivity
    /\ phase' = "feed"
    /\ UNCHANGED <<scenario, app>>

E2EAddMovement ==
    /\ phase = "feed"
    /\ Len(recorded) < MaxE2EMoves
    /\ AddMovement(LastRecordedPosition,
                   Plus(LastRecordedPosition, Cyclic(scenario.moves, Len(recorded))),
                   now)
    /\ phase' = "wait"
    /\ UNCHANGED <<scenario, app>>

E2ESleep ==
    /\ phase = "wait"
    /\ Sleep(Cyclic(scenario.timing, Len(recorded) - 1))
    /\ phase' = "analyze"
    /\ UNCHANGED <<scenario, app>>

InitE2E ==
    /\ InitObjects
    /\ config = DEFAULT_CONFIG
    /\ scenario \in E2EScenarios
    /\ phase = "start"

NextE2E == E2EKeyboard \/ E2EAddMovement \/ E2ESleep \/ ScriptedAnalyze

SpecE2E == InitE2E /\ [][NextE2E]_vars

(***************************************************************************)
(* Free runs: the calls in any order, on the default settings, with the    *)
(* clock advancing between calls by the intervals the settings name.       *)
(***************************************************************************)
FreeMoves == {<<0, 0>>, <<2, 0>>}
FreeTitles == Titles \cup {"", QueryFailed}
SleepSteps == {Seconds(DEFAULT_CONFIG.keyboard_check_interval),
               Seconds(DEFAULT_CONFIG.keyboard_check_interval + 1)}
Switches == {"anticheat_enabled", "require_keyboard_activity", "require_window_changes"}

FreeHasMoved ==
    /\ Len(recorded) < MaxFreeMoves
    /\ \E v \in FreeMoves, title \in Titles :
            HasMoved(IF last_position = None THEN Origin ELSE Plus(last_position, v), title, now)
    /\ UNCHANGED <<scenario, phase, app>>

FreeRecordKeyboardActivity ==
    /\ anticheat.keyboard_count < MaxKeys
    /\ RecordKeyboardActivity
    /\ UNCHANGED <<scenario, phase, app>>

FreeCheckActiveWindow ==
    /\ anticheat.window_change_count < MaxWindowChanges
    /\ \E title \in FreeTitles : CheckActiveWindow(title)
    /\ UNCHANGED <<scenario, phase, app>>

FreeAnalyze ==
    /\ Len(anticheat.suspicious_events) < MaxEvents
    /\ Analyze
    /\ UNCHANGED <<scenario, phase, app>>

FreeConfigSet ==
    /\ \E key \in Switches :
            /\ Cardinality({k \in Switches \ {key} : config[k] # DEFAULT_CONFIG[k]})
                  + (IF config[key] = DEFAULT_CONFIG[key] THEN 1 ELSE 0) <= MaxSwitched
            /\ ConfigSet(key, ~config[key])
    /\ UNCHANGED <<scenario, phase, app>>

FreeSleep ==
    /\ \E d \in SleepSteps : now + d <= MaxClock /\ Sleep(d)
    /\ UNCHANGED <<scenario, phase, app>>

Init ==
    /\ InitObjects
    /\ config = DEFAULT_CONFIG
    /\ scenario = NoScenario
    /\ phase = "free"

Next ==
    \/ FreeHasMoved
    \/ FreeRecordKeyboardActivity
    \/ FreeCheckActiveWindow
    \/ FreeAnalyze
    \/ FreeConfigSet
    \/ FreeSleep

Spec == Init /\ [][Next]_vars

(***************************************************************************)
(* Direct calls: the detector's methods called in any order on the default *)
(* settings, add_movement with or without a previous position.             *)
(***************************************************************************)
CallsAddMovement ==
    /\ \E old_pos \in {None, Origin}, v \in FreeMoves :
            /\ old_pos # None => Len(recorded) < MaxFreeMoves
            /\ AddMovement(old_pos, Plus(Origin, v), now)
    /\ UNCHANGED <<scenario, phase, app>>

CallsCheckActiveWindow ==
    /\ \E title \in FreeTitles :
            /\ check_active_window(anticheat, title, now).self.window_change_count
                  <= MaxWindowChanges
            /\ CheckActiveWindow(title)
    /\ UNCHANGED <<scenario, phase, app>>

CallsAnalyze ==
    /\ Len(anticheat.suspicious_events) < MaxRepeatedEvents
    /\ Analyze
    /\ UNCHANGED <<scenario, phase, app>>

CallsGetStatus ==
    /\ GetStatus
    /\ UNCHANGED <<scenario, phase, app>>

NextCalls ==
    \/ CallsAddMovement
    \/ FreeRecordKeyboardActivity
    \/ CallsCheckActiveWindow
    \/ CallsAnalyze
    \/ CallsGetStatus
    \/ FreeSleep

SpecCalls == Init /\ [][NextCalls]_vars

(***************************************************************************)
(* Settings runs: a Config constructed on a stored settings file, then     *)
(* get, set, verify_password and set_password called in any order.  The    *)
(* scenario is what the file held: << >> where there was none, otherwise   *)
(* the keys an earlier run wrote.                                          *)
(***************************************************************************)
StoredSettings ==
    { << >>,
      [anticheat_enabled |-> FALSE],
      [test_key |-> "stored_value"],
      [admin_password_hash |-> sha256("letmein")] }

SetKeys == {"anticheat_enabled", "keyboard_check_interval", "test_key"}
GetKeys == SetKeys \cup {"admin_password_hash", "missing_key"}

\* the values the runs set a key to
SetValues(key) ==
    CASE key = "anticheat_enabled" -> BOOLEAN
      [] key = "keyboard_check_interval" -> {DEFAULT_CONFIG.keyboard_check_interval, 60}
      [] key = "test_key" -> {"test_value", "other_value"}

SettingsGet ==
    /\ \E key \in GetKeys : ConfigGet(key)
    /\ UNCHANGED <<scenario, phase, app>>

SettingsSet ==
    /\ \E key \in SetKeys : \E value \in SetValues(key) : ConfigSet(key, value)
    /\ UNCHANGED <<scenario, phase, app>>

SettingsVerifyPassword ==
    /\ \E password \in Passwords : VerifyPassword(password)
    /\ UNCHANGED <<scenario, phase, app>>

SettingsSetPassword ==
    /\ \E new_password \in Passwords : SetPassword(new_password)
    /\ UNCHANGED <<scenario, phase, app>>

InitSettings ==
    /\ InitObjects
    /\ scenario \in StoredSettings
    /\ config = Config_load(scenario)
    /\ phase = "settings"

NextSettings ==
    \/ SettingsGet
    \/ SettingsSet
    \/ SettingsVerifyPassword
    \/ SettingsSetPassword

SpecSettings == InitSettings /\ [][NextSettings]_vars

(***************************************************************************)
(* Two threads: the monitor thread (WorkMonitorApp.monitor_loop) runs      *)
(* analyze, the UI thread (WorkMonitorApp.update_ui) runs get_status, with *)
(* no lock between them.  Each assignment of analyze to a field of the     *)
(* detector and each read of get_status from one is a step; phase holds    *)
(* the position of each thread, the verdict analyze has computed (result)  *)
(* and the fields get_status has read so far (snapshot).                   *)
(***************************************************************************)
Threads(monitor, ui, result, snapshot) ==
    [monitor |-> monitor, ui |-> ui, result |-> result, snapshot |-> snapshot]

\* the monitor thread between two calls
MonitorSleep ==
    /\ phase.monitor = "idle"
    /\ \E d \in SleepSteps : now + d <= MaxClock /\ Sleep(d)
    /\ UNCHANGED <<scenario, phase, app>>

\* analyze, lines 291-310: the three rules evaluated, the score summed
MonitorAnalyzeRules ==
    /\ phase.monitor = "idle"
    /\ Len(anticheat.suspicious_events) < MaxEvents
    /\ ~AntiCheatDisabled(config)
    /\ phase' = [phase EXCEPT !.monitor = "cheat_score",
                              !.result = analyze(anticheat, config, now)]
    /\ UNCHANGED <<config, anticheat, last_position, now, ret, recorded, scenario, app>>

\* analyze, line 312: self.cheat_score = min(100, total_score)
MonitorWriteScore ==
    /\ phase.monitor = "cheat_score"
    /\ anticheat' = [anticheat EXCEPT !.cheat_score = phase.result.value.score]
    /\ phase' = [phase EXCEPT !.monitor = "is_cheating"]
    /\ UNCHANGED <<config, last_position, now, ret, recorded, scenario, app>>

\* analyze, line 313: self.is_cheating = self.cheat_score >= 50
MonitorWriteIsCheating ==
    /\ phase.monitor = "is_cheating"
    /\ anticheat' = [anticheat EXCEPT !.is_cheating = IsCheating(anticheat.cheat_score)]
    /\ phase' = [phase EXCEPT !.monitor = "cheat_reason"]
    /\ UNCHANGED <<config, last_position, now, ret, recorded, scenario, app>>

\* analyze, line 314: self.cheat_reason = ...
MonitorWriteReason ==
    /\ phase.monitor = "cheat_reason"
    /\ anticheat' = [anticheat EXCEPT !.cheat_reason = phase.result.value.reason]
    /\ phase' = [phase EXCEPT !.monitor = "return"]
    /\ UNCHANGED <<config, last_position, now, ret, recorded, scenario, app>>

\* analyze, lines 316-324: the log entry and the return
MonitorReturn ==
    /\ phase.monitor = "return"
    /\ anticheat' = [anticheat EXCEPT
                        !.suspicious_events = phase.result.self.suspicious_events]
    /\ ret' = Return("analyze", phase.result.value)
    /\ phase' = [phase EXCEPT !.monitor = "idle", !.result = None]
    /\ UNCHANGED <<config, last_position, now, recorded, scenario, app>>

\* get_status, line 329: "is_cheating": self.is_cheating
UiReadIsCheating ==
    /\ phase.ui = "idle"
    /\ phase' = [phase EXCEPT !.ui = "score",
                              !.snapshot = [is_cheating |-> anticheat.is_cheating]]
    /\ UNCHANGED <<config, anticheat, last_position, now, ret, recorded, scenario, app>>

\* get_status, line 330: "score": self.cheat_score
UiReadScore ==
    /\ phase.ui = "score"
    /\ phase' = [phase EXCEPT !.ui = "reason",
                              !.snapshot = [is_cheating |-> phase.snapshot.is_cheating,
                                            score |-> anticheat.cheat_score]]
    /\ UNCHANGED <<config, anticheat, last_position, now, ret, recorded, scenario, app>>

\* get_status, line 331: "reason": self.cheat_reason
UiReadReason ==
    /\ phase.ui = "reason"
    /\ phase' = [phase EXCEPT !.ui = "return",
                              !.snapshot = [is_cheating |-> phase.snapshot.is_cheating,
                                            score |-> phase.snapshot.score,
                                            reason |-> anticheat.cheat_reason]]
    /\ UNCHANGED <<config, anticheat, last_position, now, ret, recorded, scenario, app>>

\* get_status, lines 332-335: the remaining entries and the return
UiReturn ==
    /\ phase.ui = "return"
    /\ ret' = Return("get_status",
                     [is_cheating |-> phase.snapshot.is_cheating,
                      score |-> phase.snapshot.score,
                      reason |-> phase.snapshot.reason,
                      keyboard_last |-> now - anticheat.last_keyboard_time,
                      window_last |-> now - anticheat.last_window_change,
                      suspicious_count |-> Len(anticheat.suspicious_events)])
    /\ phase' = [phase EXCEPT !.ui = "idle", !.snapshot = None]
    /\ UNCHANGED <<config, anticheat, last_position, now, recorded, scenario, app>>

InitThreads ==
    /\ InitObjects
    /\ config = DEFAULT_CONFIG
    /\ scenario = NoScenario
    /\ phase = Threads("idle", "idle", None, None)

NextThreads ==
    \/ MonitorSleep
    \/ MonitorAnalyzeRules
    \/ MonitorWriteScore
    \/ MonitorWriteIsCheating
    \/ MonitorWriteReason
    \/ MonitorReturn
    \/ UiReadIsCheating
    \/ UiReadScore
    \/ UiReadReason
    \/ UiReturn

SpecThreads == InitThreads /\ [][NextThreads]_vars

(***************************************************************************)
(* Monitor runs: iterations of monitor_loop on the default settings, under *)
(* any cursor movement, window title, key press and time of day.           *)
(***************************************************************************)
\* the time between two iterations: the intervals of the free runs and half
\* the keyboard interval
MonitorSteps == SleepSteps \cup {Seconds(DEFAULT_CONFIG.keyboard_check_interval \div 2)}

TickMonitorLoop ==
    /\ \E d \in MonitorSteps, v \in FreeMoves, title \in FreeTitles,
          key_pressed \in BOOLEAN, work_hours \in BOOLEAN :
            /\ now + d <= MaxClock
            /\ MonitorLoop(d, IF last_position = None THEN Origin ELSE Plus(last_position, v),
                           title, key_pressed, work_hours)
    /\ UNCHANGED <<scenario, phase>>

NextMonitor == TickMonitorLoop

SpecMonitor == Init /\ [][NextMonitor]_vars

(***************************************************************************)
(* Settings changed while the detector runs: analyze and get_status called *)
(* in any order while the switches of the settings are turned off and on.  *)
(***************************************************************************)
NextSwitches ==
    \/ FreeRecordKeyboardActivity
    \/ CallsAnalyze
    \/ CallsGetStatus
    \/ FreeConfigSet
    \/ FreeSleep

SpecSwitches == Init /\ [][NextSwitches]_vars

(***************************************************************************)
(* Claims checked on the scripted runs                                     *)
(***************************************************************************)
Analyzed == ret.op = "analyze"
Rules(reason) == {reason[i].rule : i \in 1..Len(reason)}
JitterRules == {RegularMsg, OscillatingMsg}

\* C1: every verdict analyze returns, and the verdict it stores, has
\* is_cheating true exactly when its score is at least 50.
C1_ThresholdConsistency ==
    /\ anticheat.is_cheating = (anticheat.cheat_score >= 50)
    /\ Analyzed => (ret.value.is_cheating = (ret.value.score >= 50))
    /\ (Analyzed /\ config.anticheat_enabled) =>
            /\ anticheat.is_cheating = ret.value.is_cheating
            /\ anticheat.cheat_score = ret.value.score

\* an enabled analyze has returned a score of exactly 50, the threshold
C1_Witness ==
    /\ Analyzed
    /\ config.anticheat_enabled
    /\ ret.value.score = 50
    /\ ret.value.is_cheating
    /\ anticheat.is_cheating

\* C2: the score analyze returns and the stored cheat_score are within 0..100,
\* whichever rules fired.
C2_ScoreRange ==
    /\ anticheat.cheat_score >= 0
    /\ anticheat.cheat_score <= 100
    /\ Analyzed => (ret.value.score >= 0 /\ ret.value.score <= 100)

\* all three rules fired in one verdict, which reaches the top of the range
C2_Witness ==
    /\ Analyzed
    /\ Len(ret.value.reason) = 3
    /\ ret.value.score = 100
    /\ anticheat.cheat_score = 100

\* C3: after n recorded movements the movement buffer is the min(n, 100) most
\* recent samples, in the order they were recorded.
C3_MovementBuffer ==
    /\ Len(anticheat.movement_history) = Min(Len(recorded), 100)
    /\ anticheat.movement_history = LastN(recorded, 100)

\* more than 100 movements have been recorded: the oldest have been evicted
C3_Witness ==
    /\ Len(recorded) > 100
    /\ ret.op = "has_moved"
    /\ anticheat.movement_history[1] # recorded[1]

Distances(samples) == [i \in 1..Len(samples) |-> samples[i][4]]
Intervals(samples) == [i \in 1..(Len(samples) - 1) |-> samples[i + 1][1] - samples[i][1]]

\* C4: the distance buffer is the (at most 50) most recent distances and the
\* interval buffer the (at most 50) most recent differences between the
\* timestamps of consecutive samples, oldest first.
C4_DerivedBuffers ==
    /\ Len(anticheat.distance_history) <= 50
    /\ Len(anticheat.interval_history) <= 50
    /\ anticheat.distance_history = LastN(Distances(recorded), 50)
    /\ anticheat.interval_history = LastN(Intervals(recorded), 50)

\* both buffers have overflowed, with nonzero intervals in them
C4_Witness ==
    /\ Len(recorded) > 52
    /\ Len(anticheat.distance_history) = 50
    /\ Len(anticheat.interval_history) = 50
    /\ anticheat.interval_history[50] > 0

\* C5: with fewer than 10 samples in the movement buffer analyze reports no
\* jitter message and the score is what the other two rules contribute.
C5_ColdStart ==
    (Analyzed /\ Len(anticheat.movement_history) < 10) =>
        /\ Rules(ret.value.reason) \cap JitterRules = {}
        /\ ret.value.score =
              (IF NoKeyboardMsg \in Rules(ret.value.reason) THEN 30 ELSE 0)
              + (IF SameWindowMsg \in Rules(ret.value.reason) THEN 20 ELSE 0)

\* analyze has run on 9 small, perfectly regular movements
C5_Witness ==
    /\ Analyzed
    /\ config.anticheat_enabled
    /\ Len(anticheat.movement_history) = 9
    /\ \A i \in 1..9 : anticheat.movement_history[i][4] = 2
    /\ \A i \in 1..8 : anticheat.interval_history[i] = 2

\* C6: with anticheat_enabled false, analyze returns (false, 0, "Anti-cheat
\* disabled") and leaves the suspicious-events log as it was.
C6_DisabledShortCircuit ==
    [][(phase = "analyze" /\ ~config.anticheat_enabled) =>
            /\ ret'.value = Verdict(FALSE, 0, <<Message(DisabledMsg, 0, 0)>>)
            /\ anticheat'.suspicious_events = anticheat.suspicious_events]_vars

\* a disabled analyze has run on a state in which the jitter rule and the
\* no-keyboard rule would both fire
C6_Witness ==
    /\ Analyzed
    /\ ~config.anticheat_enabled
    /\ detect_jitter_pattern(anticheat, config).fired
    /\ detect_no_keyboard(anticheat, config, now).fired

\* 20 movements, each 2 pixels long, exactly one second apart
TwentyRegularMicroMovements ==
    /\ Len(recorded) = 20
    /\ \A i \in 1..20 : recorded[i][4] = 2
    /\ \A i \in 1..19 : recorded[i + 1][1] - recorded[i][1] = Seconds(1)

\* C7: after 20 movements of 2 pixels at intervals of exactly one second, with
\* min_movement_distance 50 and max_jitter_regularity 0.85, analyze reports
\* the jitter rule with a "Regular micro-movements" message.
C7_RegularityDetection ==
    (/\ Analyzed
     /\ config.anticheat_enabled
     /\ config.min_movement_distance = 50
     /\ config.max_jitter_regularity = 85
     /\ TwentyRegularMicroMovements) =>
        /\ RegularMsg \in Rules(ret.value.reason)
        /\ ret.value.reason[1] = Message(RegularMsg, 100, 0)

C7_Witness ==
    /\ Analyzed
    /\ config.anticheat_enabled
    /\ config.min_movement_distance = 50
    /\ config.max_jitter_regularity = 85
    /\ TwentyRegularMicroMovements

\* 20 samples alternating strictly between (102,100) and (100,100)
TwentyAlternatingSamples ==
    /\ Len(recorded) = 20
    /\ \A i \in 1..20 : /\ recorded[i][3] = 100
                        /\ recorded[i][2] = IF i % 2 = 1 THEN 102 ELSE 100

\* C8 (as the specification states it): after 20 samples alternating strictly
\* between (100,100) and (102,100) with irregular timing, analyze reports the
\* jitter rule through the oscillation path: the pooled reversal rate of the
\* window exceeds 0.7 and the reason reports an oscillating pattern.
C8_OscillationDetection ==
    (/\ Analyzed
     /\ config.anticheat_enabled
     /\ TwentyAlternatingSamples
     /\ ~RegularityCheck(anticheat, config).fired) =>
        /\ OscillatingMsg \in Rules(ret.value.reason)
        /\ 10 * ReversalCount(LastN(anticheat.movement_history, 20)).total
              > 7 * ReversalCount(LastN(anticheat.movement_history, 20)).max

(***************************************************************************)
(* Claims checked on the free runs                                         *)
(***************************************************************************)
\* what one message of a verdict's reason adds to its score
Contribution(msg) ==
    IF msg.rule \in JitterRules THEN msg.value \div 2
    ELSE IF msg.rule = NoKeyboardMsg THEN 30
    ELSE IF msg.rule = SameWindowMsg THEN 20
    ELSE 0

RECURSIVE ScoreOfOthers(_, _)
ScoreOfOthers(reason, rule) ==
    IF reason = <<>> THEN 0
    ELSE (IF Head(reason).rule = rule THEN 0 ELSE Contribution(Head(reason)))
         + ScoreOfOthers(Tail(reason), rule)

Messages(reason) == {reason[i] : i \in 1..Len(reason)}

KeyboardElapsed == now - anticheat.last_keyboard_time
KeyboardSilent ==
    /\ config.require_keyboard_activity
    /\ KeyboardElapsed > Seconds(config.keyboard_check_interval)

\* C9: an enabled analyze adds 30 to the score and a "No keyboard activity"
\* message (elapsed seconds, threshold) to the reason exactly when
\* require_keyboard_activity is set and now - last_keyboard_time is strictly
\* greater than keyboard_check_interval.
C9_NoKeyboardRule ==
    (Analyzed /\ config.anticheat_enabled) =>
        /\ (NoKeyboardMsg \in Rules(ret.value.reason)) = KeyboardSilent
        /\ KeyboardSilent =>
              Message(NoKeyboardMsg, WholeSeconds(KeyboardElapsed),
                      config.keyboard_check_interval) \in Messages(ret.value.reason)
        /\ ret.value.score - ScoreOfOthers(ret.value.reason, NoKeyboardMsg)
              = IF KeyboardSilent THEN 30 ELSE 0

\* analyze has run 301 s after the last key press, the interval being 300 s
C9_Witness ==
    /\ Analyzed
    /\ config.anticheat_enabled
    /\ config.require_keyboard_activity
    /\ config.keyboard_check_interval = 300
    /\ anticheat.keyboard_count > 0
    /\ KeyboardElapsed = Seconds(301)
    /\ NoKeyboardMsg \in Rules(ret.value.reason)

WindowElapsed == now - anticheat.last_window_change
WindowStale ==
    /\ config.require_window_changes
    /\ WindowElapsed > Seconds(config.window_change_interval)

\* C10: an enabled analyze adds 20 to the score and a "Same window" message
\* (elapsed seconds, threshold) to the reason exactly when
\* require_window_changes is set and now - last_window_change is strictly
\* greater than window_change_interval.
C10_NoWindowChangeRule ==
    (Analyzed /\ config.anticheat_enabled) =>
        /\ (SameWindowMsg \in Rules(ret.value.reason)) = WindowStale
        /\ WindowStale =>
              Message(SameWindowMsg, WholeSeconds(WindowElapsed),
                      config.window_change_interval) \in Messages(ret.value.reason)
        /\ ret.value.score - ScoreOfOthers(ret.value.reason, SameWindowMsg)
              = IF WindowStale THEN 20 ELSE 0

\* analyze has run 601 s after the window last changed, the interval being 600 s
C10_Witness ==
    /\ Analyzed
    /\ config.anticheat_enabled
    /\ config.require_window_changes
    /\ config.window_change_interval = 600
    /\ anticheat.window_change_count > 0
    /\ WindowElapsed = Seconds(601)
    /\ SameWindowMsg \in Rules(ret.value.reason)

(***************************************************************************)
(* Claims checked on the end-to-end runs                                   *)
(***************************************************************************)
\* 15 movements 3 px apart, one every half second (1 tick) from t = 0
FifteenMicroMovements ==
    /\ Len(recorded) = 15
    /\ \A i \in 1..15 : recorded[i][4] = 3 /\ recorded[i][1] = i - 1

\* C11: on the default settings, after a key press at t = 0 and 15 movements
\* 3 px apart at 0.5 s intervals from t = 0, analyze at t = 7.5 s returns
\* is_cheating with a score of at least 50 and the regular micro-movements
\* message, the keyboard rule and the window rule not having fired.
C11_EndToEnd ==
    (/\ Analyzed
     /\ config = DEFAULT_CONFIG
     /\ FifteenMicroMovements
     /\ anticheat.keyboard_count = 1
     /\ anticheat.last_keyboard_time = 0
     /\ now = 15)                        \* 7.5 s
    => /\ ret.value.is_cheating
       /\ ret.value.score >= 50
       /\ RegularMsg \in Rules(ret.value.reason)
       /\ NoKeyboardMsg \notin Rules(ret.value.reason)
       /\ SameWindowMsg \notin Rules(ret.value.reason)

\* analyze has returned at t = 7.5 s in the scenario of C11
C11_Witness ==
    /\ Analyzed
    /\ config = DEFAULT_CONFIG
    /\ FifteenMicroMovements
    /\ anticheat.keyboard_count = 1
    /\ anticheat.last_keyboard_time = 0
    /\ now = 15
    /\ ret.value.reason = <<Message(RegularMsg, 100, 0)>>

(***************************************************************************)
(* Claims on the verdict, checked on the scripted runs                     *)
(***************************************************************************)
\* the jitter rule's raw score where it fires, 0 where it does not
JitterRaw ==
    IF detect_jitter_pattern(anticheat, config).fired
    THEN detect_jitter_pattern(anticheat, config).score
    ELSE 0

\* C12: an enabled analyze returns the score min(100, 0.5 * J + 30 * K + 20 * W),
\* J being the jitter rule's raw score (0 if it did not fire), K and W being 1
\* exactly when the no-keyboard rule and the no-window-change rule fire.
C12_ScoreFormula ==
    (Analyzed /\ config.anticheat_enabled) =>
        ret.value.score =
            Min(100, JitterRaw \div 2
                     + 30 * (IF KeyboardSilent THEN 1 ELSE 0)
                     + 20 * (IF WindowStale THEN 1 ELSE 0))

\* the jitter rule has fired with a raw score below 100 together with the
\* no-keyboard rule, the window having just changed
C12_Witness ==
    /\ Analyzed
    /\ config.anticheat_enabled
    /\ JitterRaw > 0
    /\ JitterRaw < 100
    /\ KeyboardSilent
    /\ ~WindowStale
    /\ ret.value.score = JitterRaw \div 2 + 30
    /\ ret.value.score < 100

\* the messages of the rules that fire, the jitter rule's first, then the
\* no-keyboard rule's, then the no-window-change rule's
FiredMessages ==
    (IF detect_jitter_pattern(anticheat, config).fired
     THEN <<detect_jitter_pattern(anticheat, config).reason>> ELSE <<>>)
    \o (IF KeyboardSilent
        THEN <<Message(NoKeyboardMsg, WholeSeconds(KeyboardElapsed),
                       config.keyboard_check_interval)>>
        ELSE <<>>)
    \o (IF WindowStale
        THEN <<Message(SameWindowMsg, WholeSeconds(WindowElapsed),
                       config.window_change_interval)>>
        ELSE <<>>)

\* C13: an enabled analyze returns as reason the messages of the fired rules in
\* the order jitter, no-keyboard, no-window-change, and returns "None" exactly
\* when no rule fired, which is exactly when the score is 0.
C13_ReasonOrder ==
    (Analyzed /\ config.anticheat_enabled) =>
        /\ FiredMessages # <<>> => ret.value.reason = FiredMessages
        /\ (ret.value.reason = <<Message(NoneMsg, 0, 0)>>) = (FiredMessages = <<>>)
        /\ (ret.value.reason = <<Message(NoneMsg, 0, 0)>>) = (ret.value.score = 0)

\* the oscillation path of the jitter rule and both timer rules have fired
C13_Witness ==
    /\ Analyzed
    /\ config.anticheat_enabled
    /\ Len(ret.value.reason) = 3
    /\ ret.value.reason[1].rule = OscillatingMsg
    /\ ret.value.reason[2].rule = NoKeyboardMsg
    /\ ret.value.reason[3].rule = SameWindowMsg

\* C14: an analyze call appends one entry, carrying its time, score and fired
\* reasons, to the suspicious-events log exactly when its verdict is
\* is_cheating, no other call changes the log, and the log holds at most 50
\* entries, the oldest leaving when a 51st is appended.
C14_SuspiciousEventsLog ==
    [][/\ Len(anticheat'.suspicious_events) <= 50
       /\ phase # "analyze" => anticheat'.suspicious_events = anticheat.suspicious_events
       /\ (phase = "analyze" /\ ~ret'.value.is_cheating) =>
              anticheat'.suspicious_events = anticheat.suspicious_events
       /\ (phase = "analyze" /\ ret'.value.is_cheating) =>
              anticheat'.suspicious_events =
                  LastN(Append(anticheat.suspicious_events,
                               [time |-> now, score |-> ret'.value.score,
                                reasons |-> ret'.value.reason]),
                        50)]_vars

\* the log is full after 103 movements and holds the verdicts that followed
\* the last 50 of them; the verdict that followed the 53rd, whose jitter score
\* was 100, has been evicted
C14_Witness ==
    /\ Analyzed
    /\ ret.value.is_cheating
    /\ Len(recorded) = 103
    /\ Len(anticheat.suspicious_events) = 50
    /\ anticheat.suspicious_events[50].time = now
    /\ anticheat.suspicious_events[1].time = recorded[54][1]
    /\ recorded[53][1] < recorded[54][1]
    /\ detect_jitter_pattern([anticheat EXCEPT !.movement_history = LastN(SubSeq(recorded, 1, 53), 100),
                                               !.interval_history = LastN(Intervals(SubSeq(recorded, 1, 53)), 50)],
                             config).score = 100

(***************************************************************************)
(* Claims checked on the direct calls                                      *)
(***************************************************************************)
\* C15: check_active_window, observing a title that differs from
\* last_window_title, stores it, sets last_window_change to the clock, adds 1
\* to window_change_count and returns true; observing the stored title (the
\* empty title against the initial one included), or failing to query the OS,
\* it returns false and leaves the three fields as they were.
C15_WindowChangeRecording ==
    [][\A title \in FreeTitles :
          (ret'.op = "check_active_window" /\ CheckActiveWindow(title)) =>
              IF title # QueryFailed /\ title # anticheat.last_window_title
              THEN /\ ret'.value = TRUE
                   /\ anticheat'.last_window_title = title
                   /\ anticheat'.last_window_change = now
                   /\ anticheat'.window_change_count = anticheat.window_change_count + 1
              ELSE /\ ret'.value = FALSE
                   /\ anticheat'.last_window_title = anticheat.last_window_title
                   /\ anticheat'.last_window_change = anticheat.last_window_change
                   /\ anticheat'.window_change_count = anticheat.window_change_count]_vars

\* a call has returned false, at a time later than the one change recorded
C15_Witness ==
    /\ ret.op = "check_active_window"
    /\ ret.value = FALSE
    /\ anticheat.window_change_count = 1
    /\ anticheat.last_window_title = "editor"
    /\ anticheat.last_window_change > 0
    /\ now > anticheat.last_window_change

\* C16: add_movement called without a previous position changes none of the
\* three buffers and no other field of the detector.
C16_AddMovementWithoutPrevious ==
    [][\A v \in FreeMoves :
          (ret'.op = "add_movement" /\ AddMovement(None, Plus(Origin, v), now)) =>
              /\ anticheat' = anticheat
              /\ recorded' = recorded]_vars

\* add_movement has been called without a previous position, at a time later
\* than the one sample in the buffers
C16_Witness ==
    /\ ret.op = "add_movement"
    /\ Len(anticheat.movement_history) = 1
    /\ Len(anticheat.distance_history) = 1
    /\ now > anticheat.movement_history[1][1]

\* C17: get_status changes nothing, and reports as suspicious_count the
\* present length of the suspicious-events log.
C17_GetStatusReadOnly ==
    [][ret'.op = "get_status" =>
          /\ anticheat' = anticheat
          /\ <<config, last_position, now, recorded>>' = <<config, last_position, now, recorded>>
          /\ ret'.value.suspicious_count = Len(anticheat.suspicious_events)
          /\ ret'.value.is_cheating = anticheat.is_cheating
          /\ ret'.value.score = anticheat.cheat_score
          /\ ret'.value.reason = anticheat.cheat_reason]_vars

\* get_status has reported a log of one entry, after a cheating verdict
C17_Witness ==
    /\ ret.op = "get_status"
    /\ ret.value.suspicious_count = 1
    /\ ret.value.is_cheating
    /\ Len(anticheat.suspicious_events) = 1
    /\ Len(anticheat.movement_history) = 1

(***************************************************************************)
(* Claims on the jitter rule, checked on the scripted runs                 *)
(***************************************************************************)
\* the window of samples and of intervals the jitter rule looks at
RecentSamples == LastN(anticheat.movement_history, 20)
RecentIntervals == LastN(anticheat.interval_history, 10)

\* the jitter rule gets past the cold start and the mean-distance gate
SmallMovements ==
    /\ Len(anticheat.movement_history) >= 10
    /\ Sum(Distances(RecentSamples)) < config.min_movement_distance * Len(RecentSamples)

\* regularity is computed and exceeds max_jitter_regularity
RegularityFires ==
    /\ Len(anticheat.interval_history) >= 5
    /\ Sum(RecentIntervals) > 0
    /\ RegularityExceeds(RecentIntervals, config.max_jitter_regularity)

\* the pooled reversal rate exceeds 0.7
ReversalRateHigh ==
    /\ ReversalCount(RecentSamples).max > 0
    /\ 10 * ReversalCount(RecentSamples).total > 7 * ReversalCount(RecentSamples).max

\* C19: where the regularity exceeds max_jitter_regularity the jitter rule
\* reports the regular micro-movements message with the raw score
\* regularity * 100, whatever the reversal rate; the oscillation message and
\* score are reported only where the regularity check did not fire.
C19_RegularityPrecedence ==
    (Analyzed /\ config.anticheat_enabled /\ SmallMovements) =>
        /\ RegularityFires =>
              /\ ret.value.reason[1] =
                    Message(RegularMsg, RegularityScore(RecentIntervals), 0)
              /\ OscillatingMsg \notin Rules(ret.value.reason)
              /\ ret.value.score - ScoreOfOthers(ret.value.reason, RegularMsg)
                    = RegularityScore(RecentIntervals) \div 2
        /\ OscillatingMsg \in Rules(ret.value.reason) =>
              ~RegularityFires /\ ReversalRateHigh
        /\ (~RegularityFires /\ ReversalRateHigh) =>
              ret.value.reason[1].rule = OscillatingMsg

\* analyze has run where the regularity exceeds the maximum and the reversal
\* rate exceeds 0.7 as well
C19_Witness ==
    /\ Analyzed
    /\ config.anticheat_enabled
    /\ SmallMovements
    /\ RegularityFires
    /\ ReversalRateHigh
    /\ ret.value.reason[1].rule = RegularMsg

\* C20: where the mean distance of the 20 most recent samples is not below
\* min_movement_distance, the jitter rule adds nothing to the score and no
\* message to the reason, whatever the regularity and the reversal rate.
C20_MeanDistanceGate ==
    (/\ Analyzed
     /\ config.anticheat_enabled
     /\ Sum(Distances(RecentSamples)) >= config.min_movement_distance * Len(RecentSamples)) =>
        /\ Rules(ret.value.reason) \cap JitterRules = {}
        /\ ret.value.score = (IF KeyboardSilent THEN 30 ELSE 0) + (IF WindowStale THEN 20 ELSE 0)

\* analyze has run on 20 samples of mean distance exactly 50, regularly
\* timed and reversing at every step
C20_Witness ==
    /\ Analyzed
    /\ config.anticheat_enabled
    /\ Len(RecentSamples) = 20
    /\ Sum(Distances(RecentSamples)) = 50 * 20
    /\ RegularityFires
    /\ ReversalRateHigh
    /\ Rules(ret.value.reason) \cap JitterRules = {}

(***************************************************************************)
(* Claims checked on the settings runs                                     *)
(***************************************************************************)
\* what DEFAULT_CONFIG.get(key) returns
DefaultValue(key) ==
    IF key \in DOMAIN DEFAULT_CONFIG THEN DEFAULT_CONFIG[key] ELSE None

\* C18: right after construction get returns the default of every key the
\* stored settings do not hold, and "admin123" verifies unless a password was
\* stored; set(k, v) makes get(k) return v, for k absent from the defaults
\* too, and changes what get returns for no other key; after set_password(q)
\* exactly q verifies; verify_password(p) returns whether the hash of p is the
\* stored admin_password_hash; get and verify_password change no setting.
C18_ConfigRoundTrip ==
    [][/\ ret.op = "__init__" =>
              /\ \A key \in GetKeys \ DOMAIN scenario :
                      Config_get(config, key) = DefaultValue(key)
              /\ "admin_password_hash" \notin DOMAIN scenario =>
                      \A p \in Passwords : verify_password(config, p) = (p = "admin123")
       /\ \A key \in SetKeys : \A value \in SetValues(key) :
              (ret'.op = "set" /\ ConfigSet(key, value)) =>
                  /\ Config_get(config', key) = value
                  /\ \A other \in GetKeys \ {key} :
                          Config_get(config', other) = Config_get(config, other)
       /\ \A q \in Passwords :
              (ret'.op = "set_password" /\ SetPassword(q)) =>
                  /\ \A p \in Passwords : verify_password(config', p) = (p = q)
                  /\ \A other \in GetKeys \ {"admin_password_hash"} :
                          Config_get(config', other) = Config_get(config, other)
       /\ \A p \in Passwords :
              (ret'.op = "verify_password" /\ VerifyPassword(p)) =>
                  ret'.value = (sha256(p) = Config_get(config, "admin_password_hash"))
       /\ ret'.op \in {"get", "verify_password"} => config' = config]_vars

\* on a Config constructed without a stored file, a key absent from the
\* defaults has been set, the password changed, and the new password verified
C18_Witness ==
    /\ DOMAIN scenario = {}
    /\ "test_key" \in DOMAIN config
    /\ Config_get(config, "test_key") = "test_value"
    /\ Config_get(config, "admin_password_hash") = sha256("hunter2")
    /\ ret.op = "verify_password"
    /\ ret.value = TRUE

\* C21: where the most recent intervals have mean 0 (the samples share one
\* timestamp), analyze returns a verdict in which the regularity check has not
\* fired, and the oscillation check decides the jitter rule: its message is
\* reported exactly when the reversal rate exceeds 0.7.
C21_ZeroMeanGuard ==
    (/\ Analyzed
     /\ config.anticheat_enabled
     /\ SmallMovements
     /\ Sum(RecentIntervals) = 0) =>
        /\ RegularMsg \notin Rules(ret.value.reason)
        /\ (OscillatingMsg \in Rules(ret.value.reason)) = ReversalRateHigh
        /\ ReversalRateHigh =>
              ret.value.reason[1] =
                  Message(OscillatingMsg,
                          (100 * ReversalCount(RecentSamples).total)
                              \div ReversalCount(RecentSamples).max,
                          0)

\* analyze has returned on 20 small movements that share one timestamp and
\* reverse at every step
C21_Witness ==
    /\ Analyzed
    /\ config.anticheat_enabled
    /\ SmallMovements
    /\ Len(RecentSamples) = 20
    /\ Len(RecentIntervals) = 10
    /\ Sum(RecentIntervals) = 0
    /\ ReversalRateHigh
    /\ ret.value.reason[1].rule = OscillatingMsg

(***************************************************************************)
(* Claims on analyze, checked on the direct calls                          *)
(***************************************************************************)
\* what the record_* calls accumulate in the detector
InputState(self) ==
    <<self.movement_history, self.interval_history, self.distance_history,
      self.last_keyboard_time, self.keyboard_count,
      self.last_window_change, self.last_window_title, self.window_change_count>>

\* C22: analyze leaves the three buffers, last_keyboard_time, keyboard_count,
\* last_window_change, last_window_title and window_change_count as they
\* were, and an analyze call that follows another with no call and no
\* passing of time in between returns the same verdict.
C22_AnalyzeFrame ==
    [][ret'.op = "analyze" =>
          /\ InputState(anticheat') = InputState(anticheat)
          /\ <<config, last_position, now, recorded>>' = <<config, last_position, now, recorded>>
          /\ ret.op = "analyze" => ret'.value = ret.value]_vars

\* two analyze calls at the same clock value have both logged a positive
\* verdict, with the same score and reasons
C22_Witness ==
    /\ Analyzed
    /\ ret.value.is_cheating
    /\ Len(anticheat.suspicious_events) = 2
    /\ anticheat.suspicious_events[1] = anticheat.suspicious_events[2]
    /\ anticheat.suspicious_events[2].time = now

(***************************************************************************)
(* Claims checked on the two threads                                       *)
(***************************************************************************)
RECURSIVE ScoreOfReason(_)
ScoreOfReason(reason) ==
    IF reason = <<>> THEN 0
    ELSE Contribution(Head(reason)) + ScoreOfReason(Tail(reason))

\* C23 (as the specification states it): every snapshot get_status returns
\* while the monitor thread runs analyze is one verdict's fields: its
\* is_cheating is (its score >= 50) and its score is the score of its reason.
C23_ConsistentSnapshot ==
    ret.op = "get_status" =>
        /\ ret.value.is_cheating = (ret.value.score >= 50)
        /\ ret.value.score = ScoreOfReason(ret.value.reason)

\* C28: when the jitter rule does not fire, an enabled analyze returns score
\* 50 and is_cheating true if the no-keyboard rule and the no-window-change
\* rule both fire, and score 30 (keyboard alone) or 20 (window alone) with
\* is_cheating false if only one of them fires.
C28_TimerRulesAlone ==
    (/\ Analyzed
     /\ config.anticheat_enabled
     /\ ~detect_jitter_pattern(anticheat, config).fired) =>
        /\ (KeyboardSilent /\ WindowStale) =>
              (ret.value.score = 50 /\ ret.value.is_cheating)
        /\ (KeyboardSilent /\ ~WindowStale) =>
              (ret.value.score = 30 /\ ~ret.value.is_cheating)
        /\ (~KeyboardSilent /\ WindowStale) =>
              (ret.value.score = 20 /\ ~ret.value.is_cheating)

\* both timers have run out at an analyze after a key press and a window
\* change, with too few samples for the jitter rule
C28_Witness ==
    /\ Analyzed
    /\ config.anticheat_enabled
    /\ anticheat.keyboard_count > 0
    /\ anticheat.window_change_count > 0
    /\ ~detect_jitter_pattern(anticheat, config).fired
    /\ KeyboardSilent
    /\ WindowStale
    /\ ret.value.score = 50
    /\ ret.value.is_cheating

\* C29: the jitter rule contributes at most 50 to the score; so when neither
\* the no-keyboard rule nor the no-window-change rule fires, an enabled
\* analyze returns is_cheating true only if the jitter rule's raw score is
\* exactly 100, and a jitter rule that fired with a raw score below 100
\* gives is_cheating false.
C29_JitterAlone ==
    (Analyzed /\ config.anticheat_enabled) =>
        /\ JitterRaw \div 2 <= 50
        /\ ret.value.score
              - 30 * (IF KeyboardSilent THEN 1 ELSE 0)
              - 20 * (IF WindowStale THEN 1 ELSE 0) <= 50
        /\ (~KeyboardSilent /\ ~WindowStale) =>
              /\ ret.value.is_cheating => JitterRaw = 100
              /\ (JitterRaw > 0 /\ JitterRaw < 100) => ~ret.value.is_cheating

\* the jitter rule alone has fired with a raw score below 100 and the verdict
\* is not cheating
C29_Witness ==
    /\ Analyzed
    /\ config.anticheat_enabled
    /\ ~KeyboardSilent
    /\ ~WindowStale
    /\ JitterRaw > 2 * CheatThreshold - 20
    /\ JitterRaw < 100
    /\ Rules(ret.value.reason) \cap JitterRules # {}
    /\ ~ret.value.is_cheating

(***************************************************************************)
(* Claims about the buffers, checked on the scripted runs                  *)
(***************************************************************************)
\* C27: after n calls of add_movement with a previous position the movement
\* buffer holds min(n, 100) samples, the distance buffer min(n, 50) values
\* and the interval buffer min(max(n - 1, 0), 50) values; so whenever the
\* jitter rule is past its gate of 10 samples the interval buffer holds at
\* least 9 values, and neither the "at least 5 intervals" nor the "at least
\* 3 values" guard of the regularity check skips it.
C27_BufferLengths ==
    LET n == Len(recorded)
    IN  /\ Len(anticheat.movement_history) = Min(n, MovementHistoryMaxLen)
        /\ Len(anticheat.distance_history) = Min(n, DistanceHistoryMaxLen)
        /\ Len(anticheat.interval_history) =
              Min(IF n - 1 > 0 THEN n - 1 ELSE 0, IntervalHistoryMaxLen)
        /\ ~ColdStart(anticheat) =>
              /\ Len(anticheat.interval_history) >= MinSamples - 1
              /\ Len(anticheat.interval_history) >= MinIntervals
              /\ Len(LastN(anticheat.interval_history, IntervalWindow)) >= MinStdevPoints

\* all three buffers are full and have dropped their oldest entries, and
\* analyze has evaluated the jitter rule on them
C27_Witness ==
    /\ Analyzed
    /\ Len(recorded) > MovementHistoryMaxLen
    /\ Len(anticheat.movement_history) = MovementHistoryMaxLen
    /\ Len(anticheat.distance_history) = DistanceHistoryMaxLen
    /\ Len(anticheat.interval_history) = IntervalHistoryMaxLen
    /\ anticheat.movement_history[1][1] > recorded[1][1]

\* the samples of the window all have the same coordinate on the axis
\* (2 for x, 3 for y)
ConstantAxis(recent, axis) ==
    \A i, j \in 1..Len(recent) : recent[i][axis] = recent[j][axis]

\* C30: for a window of 20 samples in which one coordinate is constant, the
\* pooled reversal rate is at most 0.5, the oscillation check does not fire
\* and analyze reports no oscillating pattern, however the other coordinate
\* alternates.
C30_SingleAxisOscillation ==
    (/\ Len(RecentSamples) = 20
     /\ ConstantAxis(RecentSamples, 2) \/ ConstantAxis(RecentSamples, 3)) =>
        /\ 2 * ReversalCount(RecentSamples).total <= ReversalCount(RecentSamples).max
        /\ ~OscillationCheck(RecentSamples).fired
        /\ (Analyzed /\ config.anticheat_enabled) =>
              OscillatingMsg \notin Rules(ret.value.reason)

\* analyze has run on 20 samples with y constant and x reversing at every
\* step, the regularity check not having fired: the rate is exactly 0.5
C30_Witness ==
    /\ Analyzed
    /\ config.anticheat_enabled
    /\ Len(RecentSamples) = 20
    /\ ConstantAxis(RecentSamples, 3)
    /\ Reversals(Changes([i \in 1..20 |-> RecentSamples[i][2]])) = 18
    /\ 2 * ReversalCount(RecentSamples).total = ReversalCount(RecentSamples).max
    /\ SmallMovements
    /\ ~RegularityFires
    /\ Rules(ret.value.reason) \cap JitterRules = {}

(***************************************************************************)
(* Claims checked on the monitor runs                                      *)
(***************************************************************************)
\* the cursor position of an iteration in which the cursor moved by v
CursorAfter(v) == IF last_position = None THEN Origin ELSE Plus(last_position, v)

\* what an iteration added to work_seconds, suspicious_seconds, idle_seconds
AddedTime ==
    <<app'.work_seconds - app.work_seconds,
      app'.suspicious_seconds - app.suspicious_seconds,
      app'.idle_seconds - app.idle_seconds>>

\* after an iteration: the last movement or key press is less than
\* idle_start_seconds old
UserActive ==
    Min(now' - app'.last_move_time, now' - app'.last_activity)
        < Seconds(config.idle_start_seconds)

\* C24: an iteration of monitor_loop inside work hours adds the time elapsed
\* since the last iteration to exactly one total: work_seconds when the user
\* is active and the verdict is not cheating, suspicious_seconds when active
\* and cheating, idle_seconds when not active; outside work hours it adds
\* nothing to any of the three.
C24_TimeRouting ==
    [][\A d \in MonitorSteps, v \in FreeMoves, title \in FreeTitles,
          key_pressed \in BOOLEAN, work_hours \in BOOLEAN :
          (ret'.op = "monitor_loop"
              /\ MonitorLoop(d, CursorAfter(v), title, key_pressed, work_hours)) =>
              AddedTime =
                  IF ~work_hours THEN <<0, 0, 0>>
                  ELSE IF ~UserActive THEN <<0, 0, now' - app.last_check_time>>
                  ELSE IF analyze(anticheat', config, now').value.is_cheating
                  THEN <<0, now' - app.last_check_time, 0>>
                  ELSE <<now' - app.last_check_time, 0, 0>>]_vars

\* one iteration has added its time to work_seconds and a later one, with
\* the user active and the verdict cheating, to suspicious_seconds
C24_Witness ==
    /\ ret.op = "monitor_loop"
    /\ app.work_seconds > 0
    /\ app.suspicious_seconds > 0
    /\ app.idle_seconds = 0
    /\ app.is_working
    /\ app.is_suspicious
    /\ anticheat.is_cheating

\* C25: the window title is sampled on every iteration of monitor_loop: when
\* the title observed in an iteration differs from the stored one, the
\* stored title, the time of the last window change and the change count
\* are updated, whether or not the cursor moved in that iteration.
C25_WindowSampledEveryTick ==
    [][\A d \in MonitorSteps, v \in FreeMoves, title \in FreeTitles \ {QueryFailed},
          key_pressed \in BOOLEAN, work_hours \in BOOLEAN :
          (ret'.op = "monitor_loop"
              /\ MonitorLoop(d, CursorAfter(v), title, key_pressed, work_hours)
              /\ title # anticheat.last_window_title) =>
              /\ anticheat'.last_window_title = title
              /\ anticheat'.last_window_change = now'
              /\ anticheat'.window_change_count = anticheat.window_change_count + 1]_vars

(***************************************************************************)
(* Claims checked on the runs with the settings changed                    *)
(***************************************************************************)
\* C26: while anticheat_enabled is off, analyze returns (False, 0,
\* "Anti-cheat disabled") and writes none of is_cheating, cheat_score and
\* cheat_reason, which keep the verdict of the last analyze that ran while
\* enabled; get_status reports these stored fields whatever the setting.
C26_DisabledKeepsVerdict ==
    [][/\ (ret'.op = "analyze" /\ Analyze /\ ~config.anticheat_enabled) =>
            /\ ret'.value = Verdict(FALSE, 0, <<Message(DisabledMsg, 0, 0)>>)
            /\ anticheat'.is_cheating = anticheat.is_cheating
            /\ anticheat'.cheat_score = anticheat.cheat_score
            /\ anticheat'.cheat_reason = anticheat.cheat_reason
       /\ (ret'.op = "get_status" /\ GetStatus) =>
            /\ ret'.value.is_cheating = anticheat.is_cheating
            /\ ret'.value.score = anticheat.cheat_score
            /\ ret'.value.reason = anticheat.cheat_reason]_vars

\* get_status called with the detector disabled reports a positive verdict
\* that an analyze stored while enabled
C26_Witness ==
    /\ ret.op = "get_status"
    /\ ~config.anticheat_enabled
    /\ ret.value.is_cheating
    /\ ret.value.score >= CheatThreshold
    /\ analyze(anticheat, config, now).value = Verdict(FALSE, 0, <<Message(DisabledMsg, 0, 0)>>)

====
